---- MODULE Spec2Model ----
(***************************************************************************)
(* A model of the py27-utils toolkit: path_utils.norm_path,                *)
(* path_utils.path_begin_with_ip, path_utils.copy_path,                    *)
(* other_utils.multi_thread_run, image_utils.rename_images_to_format and   *)
(* image_utils.try_reduce_image_size.                                      *)
(*                                                                         *)
(* Text values are sequences of one-character strings.  Every function of  *)
(* the toolkit is stateless, so each one gets a specification of its own   *)
(* (SpecNorm, SpecIp, SpecMT, SpecReduce, SpecRename, SpecCopy) whose Init *)
(* draws the call's inputs from bounded sets and whose actions are the     *)
(* steps of the call.  The variables of the other calls stay idle.         *)
(***************************************************************************)
EXTENDS Integers, Sequences, FiniteSets, TLC

VARIABLES
    \* norm_path(path), applied once and then to its own result
    np_pc, np_in, np_once, np_twice,
    \* path_begin_with_ip(path)
    ip_pc, ip_kind, ip_in, ip_out,
    \* multi_thread_run(func, thread_limit, args_list): the jobs are 1..args_n,
    \* func raises an Exception on the jobs of `failing`
    args_n, failing, thread_limit,
    mpc,            \* where the calling thread is
    started,        \* the worker threads started so far
    jobs,           \* the Queue's items
    unfinished,     \* the Queue's unfinished_tasks
    wpc, wargs,     \* each worker's position and the args it holds
    calls,          \* how often func was invoked with each job
    finished,       \* the jobs whose func invocation has ended
    exception_list, \* the shared list of captured traces
    raised,         \* the messages of the errors the call raised
    \* try_reduce_image_size(input_path, size_threshold)
    rd_pc, rd_isdir,
    rd_entries,     \* os.listdir(input_path), or the one file input_path
    size_threshold,
    rd_i,           \* the entry the scan is at
    img_path_list,
    reduced,        \* the entries the size-reduction pass ran on
    rd_result,
    \* rename_images_to_format(folder_path, suffix, delete_non_img)
    rn_pc,
    os_name,        \* "nt" or "posix": decides what os.rename does to a target
    folder_exists,
    folder0,        \* the folder before the call: name -> content
    folder,         \* the folder now
    refused,        \* the entries the OS refuses to rename or remove
    delete_non_img,
    file_list, rn_i, index,
    attempts,       \* the renames tried: file, new name, outcome
    rn_exception_list,
    rn_result,
    \* copy_path(src, dst, force)
    cp_pc,
    cp_src0, cp_dst0,   \* the arguments
    cp_src, cp_dst,     \* the locals src and dst
    cp_force,
    fs0,                \* the file system before the call: path -> kind
    fs,                 \* the file system now
    fs_ops,             \* the file-system operations the call has made
    cp_code,            \* robocopy's exit code, -1 while it has not run
    cp_log,             \* what went to logger.info
    cp_result

normVars == <<np_pc, np_in, np_once, np_twice>>
ipVars == <<ip_pc, ip_kind, ip_in, ip_out>>

mtVars == <<args_n, failing, thread_limit, mpc, started, jobs, unfinished, wpc,
            wargs, calls, finished, exception_list, raised>>

rdVars == <<rd_pc, rd_isdir, rd_entries, size_threshold, rd_i, img_path_list,
            reduced, rd_result>>

rnVars == <<rn_pc, os_name, folder_exists, folder0, folder, refused, delete_non_img,
            file_list, rn_i, index, attempts, rn_exception_list, rn_result>>

cpVars == <<cp_pc, cp_src0, cp_dst0, cp_src, cp_dst, cp_force, fs0, fs, fs_ops,
            cp_code, cp_log, cp_result>>

vars == <<normVars, ipVars, mtVars, rdVars, rnVars, cpVars>>

\* what a step of one call leaves alone: the variables of the other calls
notNorm == <<ipVars, mtVars, rdVars, rnVars, cpVars>>
notIp == <<normVars, mtVars, rdVars, rnVars, cpVars>>
notMT == <<normVars, ipVars, rdVars, rnVars, cpVars>>
notRd == <<normVars, ipVars, mtVars, rnVars, cpVars>>
notRn == <<normVars, ipVars, mtVars, rdVars, cpVars>>
notCp == <<normVars, ipVars, mtVars, rdVars, rnVars>>

(***************************************************************************)
(* Bounds of the model.                                                    *)
(***************************************************************************)
MaxLen == 4
MaxTail == 1
MaxJobs == 3
MaxThreads == 2
MaxFiles == 2
MaxMB == 1
MaxPre == 1
MaxExitCode == 17

(***************************************************************************)
(* Python string methods, as the code uses them.                           *)
(***************************************************************************)
Str(n, alphabet) == UNION {[1..k -> alphabet] : k \in 0..n}

startswith(s, prefix) ==
    /\ Len(s) >= Len(prefix)
    /\ SubSeq(s, 1, Len(prefix)) = prefix

endswith(s, suffix) ==
    /\ Len(s) >= Len(suffix)
    /\ SubSeq(s, Len(s) - Len(suffix) + 1, Len(s)) = suffix

\* s.replace("//", "/"): one left-to-right pass over non-overlapping matches
RECURSIVE replace_double_slash(_)
replace_double_slash(s) ==
    IF Len(s) < 2 THEN s
    ELSE IF s[1] = "/" /\ s[2] = "/"
         THEN <<"/">> \o replace_double_slash(SubSeq(s, 3, Len(s)))
         ELSE <<s[1]>> \o replace_double_slash(Tail(s))

\* s.replace("\\", "/")
replace_backslash(s) == [i \in 1..Len(s) |-> IF s[i] = "\\" THEN "/" ELSE s[i]]

\* s.rstrip("/"): every trailing slash goes
RECURSIVE rstrip_slash(_)
rstrip_slash(s) ==
    IF Len(s) > 0 /\ s[Len(s)] = "/"
    THEN rstrip_slash(SubSeq(s, 1, Len(s) - 1))
    ELSE s

(***************************************************************************)
(* path_utils.norm_path                                                    *)
(***************************************************************************)
norm_path(path) ==
    LET unc == startswith(path, <<"/", "/">>) \/ startswith(path, <<"\\", "\\">>)
        p1 == replace_double_slash(path)
        p2 == replace_backslash(p1)
        p3 == IF endswith(p2, <<"/">>) /\ ~endswith(p2, <<":", "/">>)
              THEN rstrip_slash(p2)
              ELSE p2
    IN  IF unc /\ ~startswith(p3, <<"/", "/">>) /\ startswith(p3, <<"/">>)
        THEN <<"/">> \o p3
        ELSE p3

PathAlphabet == {"/", "\\", ":", "a"}

NormInit ==
    /\ np_pc = "start"
    /\ np_in \in Str(MaxLen, PathAlphabet)
    /\ np_once = <<>>
    /\ np_twice = <<>>

NormIdle ==
    /\ np_pc = "idle"
    /\ np_in = <<>>
    /\ np_once = <<>>
    /\ np_twice = <<>>

NormOnce ==
    /\ np_pc = "start"
    /\ np_once' = norm_path(np_in)
    /\ np_pc' = "once"
    /\ UNCHANGED <<np_in, np_twice, notNorm>>

NormTwice ==
    /\ np_pc = "once"
    /\ np_twice' = norm_path(np_once)
    /\ np_pc' = "twice"
    /\ UNCHANGED <<np_in, np_once, notNorm>>

(***************************************************************************)
(* encode_decode_utils.detect_encoding / coding_transition on the text     *)
(* values of the model, which are ASCII: a decoded (unicode) value is      *)
(* labelled "unicode"; a byte string gets the guesser's label "ascii",     *)
(* and decoding ASCII bytes as ascii yields the same characters.           *)
(***************************************************************************)
detect_encoding(kind, text) ==
    IF kind = "unicode" THEN "unicode" ELSE "ascii"

coding_transition(kind, text, target_encoding) ==
    LET from_encoding == detect_encoding(kind, text)
    IN  IF from_encoding = "" THEN <<>>
        ELSE IF from_encoding = target_encoding THEN text
        ELSE text

(***************************************************************************)
(* path_utils.path_begin_with_ip: the verbose regular expression           *)
(*   ^// ( (25[0-5]|2[0-4][0-9]|1[0-9]{2}|[1-9][0-9]|[0-9]) \. ){3}         *)
(*       (25[0-5]|2[0-4][0-9]|1[0-9]{2}|[1-9][0-9]|[0-9])                   *)
(* matched as re.search does: alternatives in order, with backtracking.    *)
(***************************************************************************)
Digits == <<"0", "1", "2", "3", "4", "5", "6", "7", "8", "9">>

IsDigit(c) == \E d \in 1..10 : Digits[d] = c

DigitVal(c) == (CHOOSE d \in 1..10 : Digits[d] = c) - 1

InRange(s, i, lo, hi) ==
    /\ i <= Len(s)
    /\ IsDigit(s[i])
    /\ DigitVal(s[i]) >= lo
    /\ DigitVal(s[i]) <= hi

\* The lengths the octet alternatives match at position i, in the
\* alternatives' order.
OctetLens(s, i) ==
    (IF InRange(s, i, 2, 2) /\ InRange(s, i + 1, 5, 5) /\ InRange(s, i + 2, 0, 5)
     THEN <<3>> ELSE <<>>)
    \o (IF InRange(s, i, 2, 2) /\ InRange(s, i + 1, 0, 4) /\ InRange(s, i + 2, 0, 9)
        THEN <<3>> ELSE <<>>)
    \o (IF InRange(s, i, 1, 1) /\ InRange(s, i + 1, 0, 9) /\ InRange(s, i + 2, 0, 9)
        THEN <<3>> ELSE <<>>)
    \o (IF InRange(s, i, 1, 9) /\ InRange(s, i + 1, 0, 9) THEN <<2>> ELSE <<>>)
    \o (IF InRange(s, i, 0, 9) THEN <<1>> ELSE <<>>)

\* The position after the match of `dotted` octets each followed by a dot
\* and one last octet, starting at i; 0 when nothing matches.
RECURSIVE MatchQuad(_, _, _)
MatchQuad(s, i, dotted) ==
    LET lens == OctetLens(s, i)
        End(k) ==
            IF dotted = 0 THEN i + lens[k]
            ELSE IF i + lens[k] <= Len(s) /\ s[i + lens[k]] = "."
                 THEN MatchQuad(s, i + lens[k] + 1, dotted - 1)
                 ELSE 0
        ok == {k \in 1..Len(lens) : End(k) # 0}
    IN  IF ok = {} THEN 0
        ELSE End(CHOOSE k \in ok : \A j \in ok : k <= j)

\* re.search(pattern, path, re.VERBOSE).group(), or "" without a match
ip_search(path) ==
    IF ~startswith(path, <<"/", "/">>) THEN <<>>
    ELSE LET e == MatchQuad(path, 3, 3)
         IN  IF e = 0 THEN <<>> ELSE SubSeq(path, 1, e - 1)

path_begin_with_ip(kind, path) ==
    IF path = <<>> THEN <<>>
    ELSE ip_search(coding_transition(kind, norm_path(path), "unicode"))

\* The inputs: a prefix, four dot-separated digit groups and a tail.
IpPrefixes == {<<"/", "/">>, <<"\\", "\\">>, <<"/">>}

IpGroupsHead == {<<"1">>, <<"2", "5", "5">>, <<"2", "5", "6">>, <<"0", "1">>}

IpGroupsLast ==
    IpGroupsHead \cup {<<"0">>, <<"9", "9">>, <<"1", "0", "0">>, <<"2", "4", "9">>,
                       <<"3", "0", "0">>, <<"1", "a">>}

IpTails == Str(MaxTail, {"/", "\\", "7", "a", "."})

IpInputs ==
    {<<>>} \cup
    {pre \o a \o <<".">> \o b \o <<".">> \o c \o <<".">> \o d \o t :
        pre \in IpPrefixes, a \in IpGroupsHead, b \in IpGroupsHead,
        c \in IpGroupsHead, d \in IpGroupsLast, t \in IpTails}

IpInit ==
    /\ ip_pc = "start"
    /\ ip_kind \in {"unicode", "str"}
    /\ ip_in \in IpInputs
    /\ ip_out = <<>>

IpIdle ==
    /\ ip_pc = "idle"
    /\ ip_kind = "unicode"
    /\ ip_in = <<>>
    /\ ip_out = <<>>

IpCall ==
    /\ ip_pc = "start"
    /\ ip_out' = path_begin_with_ip(ip_kind, ip_in)
    /\ ip_pc' = "done"
    /\ UNCHANGED <<ip_kind, ip_in, notIp>>


(***************************************************************************)
(* other_utils.multi_thread_run.  The calling thread and the workers are   *)
(* interleaved one statement at a time; Queue.put, Queue.get, Queue.empty, *)
(* Queue.task_done and list.append are atomic.                             *)
(***************************************************************************)
Workers == 1..MaxThreads

\* Queue.get on a non-empty queue: the item handed out, and what is left
queue_head(queue) == Head(queue)

\* a get that hands the item out and leaves it in the queue
queue_rest_peek(queue) == queue

queue_rest(queue) == Tail(queue)

\* an append that loses the traces captured before it
list_append_overwrite(list, error_msg) == <<error_msg>>

\* exception_list.append(error_msg)
list_append(list, error_msg) == Append(list, error_msg)

\* traceback.format_exc() for the failure of a job: the job names its trace
format_exc(job) == job

MTInit ==
    /\ args_n \in 0..MaxJobs
    /\ failing \in SUBSET (1..args_n)
    /\ thread_limit \in 1..MaxThreads
    /\ mpc = "start"
    /\ started = 0
    /\ jobs = <<>>
    /\ unfinished = 0
    /\ wpc = [w \in Workers |-> "unstarted"]
    /\ wargs = [w \in Workers |-> 0]
    /\ calls = [j \in 1..MaxJobs |-> 0]
    /\ finished = {}
    /\ exception_list = <<>>
    /\ raised = <<>>

MTIdle ==
    /\ args_n = 0
    /\ failing = {}
    /\ thread_limit = 0
    /\ mpc = "idle"
    /\ started = 0
    /\ jobs = <<>>
    /\ unfinished = 0
    /\ wpc = <<>>
    /\ wargs = <<>>
    /\ calls = <<>>
    /\ finished = {}
    /\ exception_list = <<>>
    /\ raised = <<>>

\* if not args_list: return
MainCheckArgs ==
    /\ mpc = "start"
    /\ mpc' = IF args_n = 0 THEN "returned" ELSE "put"
    /\ UNCHANGED <<args_n, failing, thread_limit, started, jobs, unfinished, wpc,
                   wargs, calls, finished, exception_list, raised>>
    /\ UNCHANGED notMT

\* for job_args in args_list: jobs.put(job_args)
MainPut ==
    /\ mpc = "put"
    /\ jobs' = Append(jobs, Len(jobs) + 1)
    /\ unfinished' = unfinished + 1
    /\ mpc' = IF Len(jobs) + 1 = args_n THEN "spawn" ELSE "put"
    /\ UNCHANGED <<args_n, failing, thread_limit, started, wpc, wargs, calls,
                   finished, exception_list, raised>>
    /\ UNCHANGED notMT

\* for t in range(thread_limit): threading.Thread(...).start()
MainSpawn ==
    /\ mpc = "spawn"
    /\ started' = started + 1
    /\ wpc' = [wpc EXCEPT ![started + 1] = "check"]
    /\ mpc' = IF started + 1 = thread_limit THEN "join" ELSE "spawn"
    /\ UNCHANGED <<args_n, failing, thread_limit, jobs, unfinished, wargs, calls,
                   finished, exception_list, raised>>
    /\ UNCHANGED notMT

\* jobs.join() returns once unfinished_tasks is 0; then
\* if exception_list: raise Exception('\n'.join(exception_list))
MainJoin ==
    /\ mpc = "join"
    /\ unfinished = 0
    /\ IF exception_list # <<>>
       THEN /\ raised' = Append(raised, exception_list)
            /\ mpc' = "raised"
       ELSE /\ raised' = raised
            /\ mpc' = "returned"
    /\ UNCHANGED <<args_n, failing, thread_limit, started, jobs, unfinished, wpc,
                   wargs, calls, finished, exception_list>>
    /\ UNCHANGED notMT

\* while not q.empty():
WorkerCheck(w) ==
    /\ wpc[w] = "check"
    /\ wpc' = [wpc EXCEPT ![w] = IF jobs = <<>> THEN "done" ELSE "get"]
    /\ UNCHANGED <<args_n, failing, thread_limit, mpc, started, jobs, unfinished,
                   wargs, calls, finished, exception_list, raised>>
    /\ UNCHANGED notMT

\* args = q.get(): blocks while the queue is empty
WorkerGet(w) ==
    /\ wpc[w] = "get"
    /\ jobs # <<>>
    /\ wargs' = [wargs EXCEPT ![w] = queue_head(jobs)]
    /\ jobs' = queue_rest(jobs)
    /\ wpc' = [wpc EXCEPT ![w] = "call"]
    /\ UNCHANGED <<args_n, failing, thread_limit, mpc, started, unfinished, calls,
                   finished, exception_list, raised>>
    /\ UNCHANGED notMT

\* func(*args) is entered
WorkerCall(w) ==
    /\ wpc[w] = "call"
    /\ calls' = [calls EXCEPT ![wargs[w]] = @ + 1]
    /\ wpc' = [wpc EXCEPT ![w] = "running"]
    /\ UNCHANGED <<args_n, failing, thread_limit, mpc, started, jobs, unfinished,
                   wargs, finished, exception_list, raised>>
    /\ UNCHANGED notMT

\* func(*args) returns, or raises an Exception that the worker catches
WorkerFuncEnd(w) ==
    /\ wpc[w] = "running"
    /\ finished' = finished \cup {wargs[w]}
    /\ wpc' = [wpc EXCEPT ![w] = IF wargs[w] \in failing THEN "except" ELSE "task_done"]
    /\ UNCHANGED <<args_n, failing, thread_limit, mpc, started, jobs, unfinished,
                   wargs, calls, exception_list, raised>>
    /\ UNCHANGED notMT

\* except Exception: exception_list.append(traceback.format_exc())
WorkerExcept(w) ==
    /\ wpc[w] = "except"
    /\ exception_list' = list_append(exception_list, format_exc(wargs[w]))
    /\ wpc' = [wpc EXCEPT ![w] = "task_done"]
    /\ UNCHANGED <<args_n, failing, thread_limit, mpc, started, jobs, unfinished,
                   wargs, calls, finished, raised>>
    /\ UNCHANGED notMT

\* q.task_done()
WorkerTaskDone(w) ==
    /\ wpc[w] = "task_done"
    /\ unfinished' = unfinished - 1
    /\ wpc' = [wpc EXCEPT ![w] = "check"]
    /\ UNCHANGED <<args_n, failing, thread_limit, mpc, started, jobs, wargs, calls,
                   finished, exception_list, raised>>
    /\ UNCHANGED notMT

(***************************************************************************)
(* The image extensions, and str.lower() on the extensions of the model.   *)
(***************************************************************************)
ImageExts == {"png", "jpg", "jpeg", "tif", "tiff", "tga", "bmp", "dds"}

lower(ext) ==
    CASE ext = "PNG" -> "png"
      [] ext = "JPG" -> "jpg"
      [] ext = "TXT" -> "txt"
      [] OTHER -> ext

\* f.lower().endswith((".png", ".jpg", ...))
is_image(ext) == lower(ext) \in ImageExts

(***************************************************************************)
(* image_utils.try_reduce_image_size.  An entry is its extension and its   *)
(* size in bytes.                                                          *)
(***************************************************************************)
BytesPerMB == 1048576

\* int(math.floor(os.path.getsize(img_path) / 1024 ** 2)), on integers
img_size(bytes) == bytes \div BytesPerMB

\* def multi_thread_run(func, thread_limit, args_list)
multi_thread_run_params == <<"func", "thread_limit", "args_list">>

\* other_utils.multi_thread_run(reduce_single_img_size, img_path_list)
reduce_call_args(path_list) == <<"reduce_single_img_size", path_list>>

\* Python binds the positional arguments to the parameters, none of which
\* has a default: any other count is a TypeError at the call
call_binds(params, args) == Len(args) = Len(params)

RdExts == {"png", "JPG", "txt"}

RdSizes == {mb * BytesPerMB + d : mb \in 0..MaxMB, d \in {0, BytesPerMB - 1}}

RdEntry == [ext : RdExts, bytes : RdSizes]

RdInit ==
    /\ rd_pc = "start"
    /\ rd_isdir \in BOOLEAN
    /\ rd_entries \in IF rd_isdir THEN Str(MaxFiles, RdEntry) ELSE [1..1 -> RdEntry]
    /\ size_threshold \in 0..(MaxMB + 1)
    /\ rd_i = 1
    /\ img_path_list = <<>>
    /\ reduced = {}
    /\ rd_result = "none"

RdIdle ==
    /\ rd_pc = "idle"
    /\ rd_isdir = FALSE
    /\ rd_entries = <<>>
    /\ size_threshold = 0
    /\ rd_i = 0
    /\ img_path_list = <<>>
    /\ reduced = {}
    /\ rd_result = "none"

\* if os.path.isdir(input_path): ... else: ...
RdBranch ==
    /\ rd_pc = "start"
    /\ rd_pc' = IF rd_isdir THEN "scan" ELSE "file"
    /\ UNCHANGED <<rd_isdir, rd_entries, size_threshold, rd_i, img_path_list,
                   reduced, rd_result>>
    /\ UNCHANGED notRd

\* one round of: for f in os.listdir(input_path)
RdScan ==
    /\ rd_pc = "scan"
    /\ rd_i <= Len(rd_entries)
    /\ LET f == rd_entries[rd_i]
       IN  img_path_list' =
               IF is_image(f.ext) /\ img_size(f.bytes) >= size_threshold
               THEN Append(img_path_list, rd_i)
               ELSE img_path_list
    /\ rd_i' = rd_i + 1
    /\ UNCHANGED <<rd_pc, rd_isdir, rd_entries, size_threshold, reduced, rd_result>>
    /\ UNCHANGED notRd

\* if img_path_list: multi_thread_run(...); return True -- else: return False
RdDispatch ==
    /\ rd_pc = "scan"
    /\ rd_i > Len(rd_entries)
    /\ IF img_path_list = <<>>
       THEN /\ rd_result' = "False"
            /\ reduced' = reduced
       ELSE IF call_binds(multi_thread_run_params, reduce_call_args(img_path_list))
       THEN /\ rd_result' = "True"
            /\ reduced' = {img_path_list[k] : k \in 1..Len(img_path_list)}
       ELSE /\ rd_result' = "TypeError"
            /\ reduced' = reduced
    /\ rd_pc' = "done"
    /\ UNCHANGED <<rd_isdir, rd_entries, size_threshold, rd_i, img_path_list>>
    /\ UNCHANGED notRd

\* the file branch
RdFile ==
    /\ rd_pc = "file"
    /\ LET f == rd_entries[1]
       IN  IF ~is_image(f.ext)
           THEN /\ rd_result' = "False"
                /\ reduced' = reduced
           ELSE IF img_size(f.bytes) >= size_threshold
           THEN /\ rd_result' = "True"
                /\ reduced' = {1}
           ELSE /\ rd_result' = "False"
                /\ reduced' = reduced
    /\ rd_pc' = "done"
    /\ UNCHANGED <<rd_isdir, rd_entries, size_threshold, rd_i, img_path_list>>
    /\ UNCHANGED notRd

(***************************************************************************)
(* image_utils.rename_images_to_format.  A directory entry's name is its   *)
(* base, its sequence number (-1 when the name has none) and its           *)
(* extension: a.png is [base "a", idx -1, ext "png"], thumb.0001.png is    *)
(* [base "thumb", idx 1, ext "png"].  The folder maps the names present to *)
(* the files' contents.                                                    *)
(***************************************************************************)
Suffix == "thumb"

\* suffix + "." + str("%04d" % index) + file_extension
new_file_name(suffix, idx, ext) == [base |-> suffix, idx |-> idx, ext |-> ext]

PlainNames ==
    {[base |-> "a", idx |-> -1, ext |-> "png"],
     [base |-> "b", idx |-> -1, ext |-> "JPG"],
     [base |-> "c", idx |-> -1, ext |-> "txt"],
     [base |-> "z", idx |-> -1, ext |-> "png"]}

\* entries that already carry the target format
PreNames == {new_file_name(Suffix, k, "png") : k \in 0..MaxPre}

Names == PlainNames \cup PreNames

\* natsorted(..., alg=ns.PATH | ns.IGNORECASE) on these names: by base,
\* then by the number's value, then by extension, ignoring case
Alphabetical == <<"a", "b", "c", "jpg", "png", "thumb", "txt", "z">>

Rank(word) == CHOOSE k \in 1..Len(Alphabetical) : Alphabetical[k] = word

NatLess(m, n) ==
    \/ Rank(m.base) < Rank(n.base)
    \/ m.base = n.base /\ m.idx < n.idx
    \/ m.base = n.base /\ m.idx = n.idx /\ Rank(lower(m.ext)) < Rank(lower(n.ext))

natsorted(names) ==
    CHOOSE seq \in [1..Cardinality(names) -> names] :
        \A i, j \in 1..Cardinality(names) : i < j => NatLess(seq[i], seq[j])

\* os.rename(src, dst): whether it succeeds, and the folder afterwards.
\* On Windows it fails when dst exists; on POSIX it replaces dst silently.
os_rename(os, dir, locked, src, dst) ==
    IF src \notin DOMAIN dir \/ src \in locked
    THEN [ok |-> FALSE, dir |-> dir]
    ELSE IF src = dst
    THEN [ok |-> TRUE, dir |-> dir]
    ELSE IF dst \in DOMAIN dir /\ os = "nt"
    THEN [ok |-> FALSE, dir |-> dir]
    ELSE [ok |-> TRUE,
          dir |-> [n \in (DOMAIN dir \ {src}) \cup {dst} |->
                      IF n = dst THEN dir[src] ELSE dir[n]]]

\* os.remove(path)
os_remove(dir, locked, name) ==
    IF name \notin DOMAIN dir \/ name \in locked
    THEN [ok |-> FALSE, dir |-> dir]
    ELSE [ok |-> TRUE, dir |-> [n \in DOMAIN dir \ {name} |-> dir[n]]]

\* an index that advances only when the rename succeeded
index_after_success(idx, renamed) == IF renamed THEN idx + 1 ELSE idx

\* index += 1 stands before the try: it runs whatever the rename does
index_after(idx, renamed) == idx + 1

RnInit ==
    /\ rn_pc = "start"
    /\ os_name \in {"nt", "posix"}
    /\ folder_exists \in BOOLEAN
    /\ \E present \in SUBSET Names :
          /\ folder_exists \/ present = {}
          /\ folder0 = [n \in present |-> n]
    /\ folder = folder0
    /\ \E locked \in SUBSET (DOMAIN folder0) :
          /\ Cardinality(locked) <= 1
          /\ refused = locked
    /\ delete_non_img \in BOOLEAN
    /\ file_list = <<>>
    /\ rn_i = 1
    /\ index = 0
    /\ attempts = <<>>
    /\ rn_exception_list = <<>>
    /\ rn_result = "none"

RnIdle ==
    /\ rn_pc = "idle"
    /\ os_name = "nt"
    /\ folder_exists = FALSE
    /\ folder0 = <<>>
    /\ folder = <<>>
    /\ refused = {}
    /\ delete_non_img = FALSE
    /\ file_list = <<>>
    /\ rn_i = 0
    /\ index = 0
    /\ attempts = <<>>
    /\ rn_exception_list = <<>>
    /\ rn_result = "none"

\* the two early returns, the listing and index = 0
RnList ==
    /\ rn_pc = "start"
    /\ IF ~folder_exists \/ DOMAIN folder = {}
       THEN /\ rn_pc' = "done"
            /\ rn_result' = "returned"
            /\ file_list' = file_list
       ELSE /\ rn_pc' = "loop"
            /\ rn_result' = rn_result
            /\ file_list' = natsorted(DOMAIN folder)
    /\ UNCHANGED <<os_name, folder_exists, folder0, folder, refused, delete_non_img,
                   rn_i, index, attempts, rn_exception_list>>
    /\ UNCHANGED notRn

\* one round of: for file in file_list
RnStep ==
    /\ rn_pc = "loop"
    /\ rn_i <= Len(file_list)
    /\ LET file == file_list[rn_i]
           new == new_file_name(Suffix, index, file.ext)
           mv == os_rename(os_name, folder, refused, file, new)
           rm == os_remove(folder, refused, file)
       IN  IF is_image(file.ext)
           THEN /\ index' = index_after(index, mv.ok)
                /\ folder' = mv.dir
                /\ attempts' = Append(attempts,
                                      [file |-> file, new |-> new, ok |-> mv.ok])
                /\ rn_exception_list' =
                       IF mv.ok THEN rn_exception_list
                       ELSE Append(rn_exception_list, file)
           ELSE /\ folder' = IF delete_non_img THEN rm.dir ELSE folder
                /\ UNCHANGED <<index, attempts, rn_exception_list>>
    /\ rn_i' = rn_i + 1
    /\ UNCHANGED <<rn_pc, os_name, folder_exists, folder0, refused, delete_non_img,
                   file_list, rn_result>>
    /\ UNCHANGED notRn

\* if exception_list: raise Exception(...)
RnFinish ==
    /\ rn_pc = "loop"
    /\ rn_i > Len(file_list)
    /\ rn_result' = IF rn_exception_list # <<>> THEN "raised" ELSE "returned"
    /\ rn_pc' = "done"
    /\ UNCHANGED <<os_name, folder_exists, folder0, folder, refused, delete_non_img,
                   file_list, rn_i, index, attempts, rn_exception_list>>
    /\ UNCHANGED notRn

(***************************************************************************)
(* path_utils.copy_path.  The file system maps the paths present to        *)
(* "file" or "dir".  The paths of the model are ASCII and carry no drive,  *)
(* so the utf-8 / gbk coercion of src and dst leaves them as they are.     *)
(* os.path is ntpath: the directory branch runs robocopy.                  *)
(***************************************************************************)
IsSep(c) == c = "/" \/ c = "\\"

\* "/" not in dst and "\\" not in dst
has_no_separator(p) == \A i \in 1..Len(p) : ~IsSep(p[i])

RECURSIVE rstrip_seps(_)
rstrip_seps(s) ==
    IF Len(s) > 0 /\ IsSep(s[Len(s)])
    THEN rstrip_seps(SubSeq(s, 1, Len(s) - 1))
    ELSE s

\* os.path.dirname: the head up to the last separator, without its
\* trailing separators unless it is made of separators only
dirname(p) ==
    LET seps == {i \in 1..Len(p) : IsSep(p[i])}
        cut == IF seps = {} THEN 0 ELSE CHOOSE i \in seps : \A j \in seps : j <= i
        head == SubSeq(p, 1, cut)
    IN  IF rstrip_seps(head) = <<>> THEN head ELSE rstrip_seps(head)

\* os.path.join(a, b) for a relative b
path_join(a, b) ==
    IF a # <<>> /\ ~IsSep(a[Len(a)]) THEN a \o <<"\\">> \o b ELSE a \o b

ROBOCOPY_ERROR_BOOK ==
    [code \in (0..8) \cup {16} |->
        CASE code = 0 -> "No files were copied. No failure was met."
          [] code = 1 -> "All files were copied successfully."
          [] code = 2 -> "There are some additional files in the destination directory."
          [] code = 3 -> "Some files were copied. Additional files were present."
          [] code = 4 -> "Some Mismatched files or directories were detected."
          [] code = 5 -> "Some files were copied. Some files were mismatched."
          [] code = 6 -> "Additional files and mismatched files exist."
          [] code = 7 -> "Files were copied, a file mismatch was present."
          [] code = 8 -> "Some files or directories could not be copied."
          [] code = 16 -> "Serious error. Robocopy did not copy any files."]

\* ROBOCOPY_ERROR_BOOK.get(returncode, "")
error_explain(returncode) ==
    IF returncode \in DOMAIN ROBOCOPY_ERROR_BOOK
    THEN ROBOCOPY_ERROR_BOOK[returncode]
    ELSE ""

\* subprocess.check_output raises CalledProcessError on a non-zero exit
check_output_raises(returncode) == returncode # 0

\* a handler that lets the partial-copy codes 2..7 pass as success
handler_raises_from_8(returncode) == returncode >= 8

\* if cperr.returncode != 1: raise IOError(...)
handler_raises(returncode) == returncode # 1

\* the check with its `not` dropped
refuses_existing_forced(force, dst_exists) == force /\ dst_exists

\* if not force and os.path.exists(dst): raise IOError(...)
refuses_existing(force, dst_exists) == ~force /\ dst_exists

\* the paths below p
Below(tree, p) == {q \in DOMAIN tree : Len(q) > Len(p) /\ SubSeq(q, 1, Len(p) + 1) = p \o <<"/">>}

Without(tree, gone) == [q \in DOMAIN tree \ gone |-> tree[q]]

With(tree, added, kind) ==
    [q \in DOMAIN tree \cup added |-> IF q \in added THEN kind ELSE tree[q]]

\* rm_tree(path)
rm_tree(tree, p) == Without(tree, {p} \cup Below(tree, p))

\* os.makedirs(path): the directory and its missing ancestors
RECURSIVE Ancestors(_)
Ancestors(p) == IF dirname(p) = <<>> \/ dirname(p) = p THEN {p} ELSE {p} \cup Ancestors(dirname(p))

makedirs(tree, p) == With(tree, Ancestors(p) \ DOMAIN tree, "dir")

P_d == <<"d">>
P_e == <<"e">>
P_ds == <<"d", "/", "s">>
P_dt == <<"d", "/", "t">>
P_dtx == <<"d", "/", "t", "/", "x">>
P_et == <<"e", "/", "t">>

CpSources == {P_ds, <<"d", "\\", "s">>, <<"d", "/", "/", "s", "/">>}

CpDestinations ==
    {<<"t">>, P_dt, <<"d", "\\", "t", "\\">>, P_et, P_ds, <<"s">>}

\* the trees the call may find: d/s is there, a file or a directory
CpTrees ==
    {With(With(With(With(With(With(<<>>, {P_d}, "dir"), {P_ds}, ks), dt, kt), dtx, "file"),
               e, "dir"), et, ke) :
        ks \in {"file", "dir"}, kt \in {"file", "dir"}, ke \in {"file", "dir"},
        dt \in SUBSET {P_dt}, dtx \in SUBSET {P_dtx}, e \in SUBSET {P_e},
        et \in SUBSET {P_et}}

WellFormed(tree) ==
    \A q \in DOMAIN tree :
        dirname(q) # <<>> => dirname(q) \in DOMAIN tree /\ tree[dirname(q)] = "dir"

NoResult == [kind |-> "none", value |-> <<>>, code |-> -1, explain |-> ""]

Returned(p) == [kind |-> "return", value |-> p, code |-> -1, explain |-> ""]

\* an IOError about path p; a robocopy error carries the code and its text
IOError(p, code, explain) ==
    [kind |-> "IOError", value |-> p, code |-> code, explain |-> explain]

CpInit ==
    /\ cp_pc = "start"
    /\ cp_src0 \in CpSources
    /\ cp_dst0 \in CpDestinations
    /\ cp_src = cp_src0
    /\ cp_dst = cp_dst0
    /\ cp_force \in BOOLEAN
    /\ fs0 \in {t \in CpTrees : WellFormed(t)}
    /\ fs = fs0
    /\ fs_ops = <<>>
    /\ cp_code = -1
    /\ cp_log = <<>>
    /\ cp_result = NoResult

CpIdle ==
    /\ cp_pc = "idle"
    /\ cp_src0 = <<>>
    /\ cp_dst0 = <<>>
    /\ cp_src = <<>>
    /\ cp_dst = <<>>
    /\ cp_force = FALSE
    /\ fs0 = <<>>
    /\ fs = <<>>
    /\ fs_ops = <<>>
    /\ cp_code = -1
    /\ cp_log = <<>>
    /\ cp_result = NoResult

\* a bare-name dst goes beside src; both are normalized; src == dst raises
CpResolve ==
    /\ cp_pc = "start"
    /\ LET dst1 == IF has_no_separator(cp_dst)
                   THEN path_join(dirname(cp_src), cp_dst)
                   ELSE cp_dst
           src2 == norm_path(cp_src)
           dst2 == norm_path(dst1)
       IN  /\ cp_src' = src2
           /\ cp_dst' = dst2
           /\ IF src2 = dst2
              THEN /\ cp_result' = IOError(src2, -1, "")
                   /\ cp_pc' = "done"
              ELSE /\ cp_result' = cp_result
                   /\ cp_pc' = "check"
    /\ UNCHANGED <<cp_src0, cp_dst0, cp_force, fs0, fs, fs_ops, cp_code, cp_log>>
    /\ UNCHANGED notCp

\* if not force and os.path.exists(dst): raise IOError
CpCheck ==
    /\ cp_pc = "check"
    /\ IF refuses_existing(cp_force, cp_dst \in DOMAIN fs)
       THEN /\ cp_result' = IOError(cp_dst, -1, "")
            /\ cp_pc' = "done"
       ELSE /\ cp_result' = cp_result
            /\ cp_pc' = "remove"
    /\ UNCHANGED <<cp_src0, cp_dst0, cp_src, cp_dst, cp_force, fs0, fs, fs_ops,
                   cp_code, cp_log>>
    /\ UNCHANGED notCp

\* if force and os.path.exists(dst): rm_tree(dst) or os.remove(dst)
CpRemove ==
    /\ cp_pc = "remove"
    /\ IF cp_force /\ cp_dst \in DOMAIN fs
       THEN IF fs[cp_dst] = "dir"
            THEN /\ fs' = rm_tree(fs, cp_dst)
                 /\ fs_ops' = Append(fs_ops, "rm_tree")
            ELSE /\ fs' = Without(fs, {cp_dst})
                 /\ fs_ops' = Append(fs_ops, "remove")
       ELSE UNCHANGED <<fs, fs_ops>>
    /\ cp_pc' = "mkdir"
    /\ UNCHANGED <<cp_src0, cp_dst0, cp_src, cp_dst, cp_force, fs0, cp_code,
                   cp_log, cp_result>>
    /\ UNCHANGED notCp

\* if not os.path.exists(dst_dir): os.makedirs(dst_dir)
CpMakeDirs ==
    /\ cp_pc = "mkdir"
    /\ IF dirname(cp_dst) \notin DOMAIN fs
       THEN /\ fs' = makedirs(fs, dirname(cp_dst))
            /\ fs_ops' = Append(fs_ops, "makedirs")
       ELSE UNCHANGED <<fs, fs_ops>>
    /\ cp_pc' = "copy"
    /\ UNCHANGED <<cp_src0, cp_dst0, cp_src, cp_dst, cp_force, fs0, cp_code,
                   cp_log, cp_result>>
    /\ UNCHANGED notCp

\* whether a new entry can be made at p: its directory is there
can_create(tree, p) == dirname(p) \in DOMAIN tree /\ tree[dirname(p)] = "dir"

\* if os.path.isfile(src): shutil.copy(src, dst), which raises an IOError
\* when dst cannot be opened for writing
CpCopyFile ==
    /\ cp_pc = "copy"
    /\ cp_src \in DOMAIN fs /\ fs[cp_src] = "file"
    /\ IF can_create(fs, cp_dst)
       THEN /\ fs' = With(fs, {cp_dst}, "file")
            /\ cp_result' = Returned(cp_dst)
       ELSE /\ fs' = fs
            /\ cp_result' = IOError(cp_dst, -1, "")
    /\ fs_ops' = Append(fs_ops, "copy")
    /\ cp_pc' = "done"
    /\ UNCHANGED <<cp_src0, cp_dst0, cp_src, cp_dst, cp_force, fs0, cp_code, cp_log>>
    /\ UNCHANGED notCp

\* else: robocopy src dst /E /MT:32, which exits with some code; the codes
\* with the "files were copied" bit leave dst behind as a directory
CpRobocopy ==
    /\ cp_pc = "copy"
    /\ ~(cp_src \in DOMAIN fs /\ fs[cp_src] = "file")
    /\ \E returncode \in 0..MaxExitCode :
          /\ cp_code' = returncode
          /\ fs' = IF returncode % 2 = 1 /\ can_create(fs, cp_dst)
                   THEN With(fs, {cp_dst}, "dir")
                   ELSE fs
          /\ IF check_output_raises(returncode)
             THEN /\ cp_log' = cp_log
                  /\ cp_result' =
                        IF handler_raises(returncode)
                        THEN IOError(cp_dst, returncode,
                                     error_explain(returncode))
                        ELSE Returned(cp_dst)
             ELSE /\ cp_log' = Append(cp_log, "Destination folder already exists")
                  /\ cp_result' = Returned(cp_dst)
    /\ fs_ops' = Append(fs_ops, "robocopy")
    /\ cp_pc' = "done"
    /\ UNCHANGED <<cp_src0, cp_dst0, cp_src, cp_dst, cp_force, fs0>>
    /\ UNCHANGED notCp

(***************************************************************************)
(* Specifications.                                                         *)
(***************************************************************************)
InitNorm == NormInit /\ IpIdle /\ MTIdle /\ RdIdle /\ RnIdle /\ CpIdle
NextNorm == NormOnce \/ NormTwice
SpecNorm == InitNorm /\ [][NextNorm]_vars

InitIp == IpInit /\ NormIdle /\ MTIdle /\ RdIdle /\ RnIdle /\ CpIdle
NextIp == IpCall
SpecIp == InitIp /\ [][NextIp]_vars

InitMT == MTInit /\ NormIdle /\ IpIdle /\ RdIdle /\ RnIdle /\ CpIdle
NextMT ==
    \/ MainCheckArgs
    \/ MainPut
    \/ MainSpawn
    \/ MainJoin
    \/ \E w \in Workers : WorkerCheck(w)
    \/ \E w \in Workers : WorkerGet(w)
    \/ \E w \in Workers : WorkerCall(w)
    \/ \E w \in Workers : WorkerFuncEnd(w)
    \/ \E w \in Workers : WorkerExcept(w)
    \/ \E w \in Workers : WorkerTaskDone(w)
SpecMT == InitMT /\ [][NextMT]_vars

InitReduce == RdInit /\ NormIdle /\ IpIdle /\ MTIdle /\ RnIdle /\ CpIdle
NextReduce == RdBranch \/ RdScan \/ RdDispatch \/ RdFile
SpecReduce == InitReduce /\ [][NextReduce]_vars

InitRename == RnInit /\ NormIdle /\ IpIdle /\ MTIdle /\ RdIdle /\ CpIdle
NextRename == RnList \/ RnStep \/ RnFinish
SpecRename == InitRename /\ [][NextRename]_vars

InitCopy == CpInit /\ NormIdle /\ IpIdle /\ MTIdle /\ RdIdle /\ RnIdle
NextCopy == CpResolve \/ CpCheck \/ CpRemove \/ CpMakeDirs \/ CpCopyFile \/ CpRobocopy
SpecCopy == InitCopy /\ [][NextCopy]_vars

(***************************************************************************)
(* C1: norm_path is idempotent: norm_path(norm_path(p)) = norm_path(p)     *)
(* for every path p.                                                       *)
(***************************************************************************)
NormPathIdempotent == np_pc = "twice" => np_twice = np_once

RECURSIVE HostEnd(_, _)
HostEnd(s, i) == IF i > Len(s) \/ s[i] = "/" THEN i - 1 ELSE HostEnd(s, i + 1)

\* the text between the leading "//" and the next "/" or the end
Host(s) == SubSeq(s, 3, HostEnd(s, 3))

RECURSIVE SplitDots(_)
SplitDots(s) ==
    IF \A i \in 1..Len(s) : s[i] # "." THEN <<s>>
    ELSE LET i == CHOOSE k \in 1..Len(s) : s[k] = "." /\ \A j \in 1..(k - 1) : s[j] # "."
         IN  <<SubSeq(s, 1, i - 1)>> \o SplitDots(SubSeq(s, i + 1, Len(s)))

RECURSIVE DecVal(_)
DecVal(s) == IF s = <<>> THEN 0 ELSE 10 * DecVal(SubSeq(s, 1, Len(s) - 1)) + DigitVal(s[Len(s)])

IsOctet(s) ==
    /\ Len(s) \in 1..3
    /\ \A i \in 1..Len(s) : IsDigit(s[i])
    /\ DecVal(s) <= 255

IsDottedQuad(s) ==
    LET parts == SplitDots(s)
    IN  Len(parts) = 4 /\ \A i \in 1..4 : IsOctet(parts[i])

(***************************************************************************)
(* C9: a non-empty result of path_begin_with_ip is "//" followed by the    *)
(* whole host component of the normalized path, which is a dotted quad of  *)
(* octets in 0..255.                                                       *)
(***************************************************************************)
IpResultIsWholeHost ==
    (ip_pc = "done" /\ ip_out # <<>>) =>
        LET n == norm_path(ip_in)
        IN  /\ startswith(n, <<"/", "/">>)
            /\ ip_out = <<"/", "/">> \o Host(n)
            /\ IsDottedQuad(Host(n))

MTDone == mpc \in {"returned", "raised"}

(***************************************************************************)
(* C2: with thread_limit >= 1 and a non-empty args_list, under every       *)
(* interleaving no job is passed to func twice, and when the call returns  *)
(* or raises every job, failing or not, has been passed to func exactly    *)
(* once and has finished.                                                  *)
(***************************************************************************)
EachJobRunsExactlyOnce ==
    /\ \A j \in 1..MaxJobs : calls[j] <= 1
    /\ (MTDone /\ args_n > 0) =>
          \A j \in 1..args_n : calls[j] = 1 /\ j \in finished

EachJobRunsExactlyOnceWitness ==
    /\ mpc = "raised"
    /\ args_n >= 2
    /\ thread_limit >= 2
    /\ failing # {}
    /\ failing # 1..args_n
    /\ \E w \in Workers : wargs[w] \notin failing /\ wargs[w] # 0
    /\ \A j \in 1..args_n : calls[j] = 1

(***************************************************************************)
(* C3: the call raises one aggregated error if and only if a job failed,   *)
(* and only after all jobs have finished; the message holds one trace per  *)
(* failed job; with no failed job the call returns normally.               *)
(***************************************************************************)
AggregatedErrorIffFailure ==
    /\ Len(raised) <= 1
    /\ mpc = "raised" =>
          /\ Len(raised) = 1
          /\ finished = 1..args_n
          /\ failing # {}
          /\ Len(raised[1]) = Cardinality(failing)
          /\ {raised[1][i] : i \in 1..Len(raised[1])} = failing
    /\ mpc = "returned" =>
          /\ raised = <<>>
          /\ failing = {}
          /\ finished = 1..args_n

AggregatedErrorWitness ==
    /\ mpc = "raised"
    /\ Cardinality(failing) >= 2
    /\ Len(raised[1]) >= 2
    /\ raised[1][1] > raised[1][2]

(***************************************************************************)
(* C10: once multi_thread_run has returned or raised, no worker is left    *)
(* blocked in q.get() on the empty queue (nothing is put after the return, *)
(* so such a worker never terminates).                                     *)
(***************************************************************************)
NoWorkerBlockedAfterReturn ==
    MTDone => \A w \in Workers : ~(wpc[w] = "get" /\ jobs = <<>>)

Qualifying ==
    {k \in 1..Len(rd_entries) :
        /\ is_image(rd_entries[k].ext)
        /\ rd_entries[k].bytes \div BytesPerMB >= size_threshold}

(***************************************************************************)
(* C4: on a directory, try_reduce_image_size runs the size-reduction pass  *)
(* over the images whose size in whole megabytes is at or above            *)
(* size_threshold and returns true if there is one, false otherwise.       *)
(***************************************************************************)
ReduceDirectoryReturnsWhetherAnyQualified ==
    (rd_pc = "done" /\ rd_isdir) =>
        /\ rd_result = IF Qualifying # {} THEN "True" ELSE "False"
        /\ reduced = Qualifying

Renamed == {k \in 1..Len(attempts) : attempts[k].ok}

(***************************************************************************)
(* C5 as stated: the index advances only on a successful rename, so the    *)
(* images renamed successfully carry the gap-free indices 0..k-1.          *)
(***************************************************************************)
SuccessfulRenamesAreGapFree ==
    rn_pc = "done" =>
        {attempts[k].new.idx : k \in Renamed} = 0..(Cardinality(Renamed) - 1)

ImagesOf(list) == SelectSeq(list, LAMBDA n : is_image(n.ext))

(***************************************************************************)
(* C5 as amended: the index starts at 0 and advances by one for every      *)
(* image entry, whether or not its rename succeeds: the k-th image entry   *)
(* in sorted order is given index k-1, and a failed rename leaves a gap.   *)
(***************************************************************************)
IndexAdvancesPerImageEntry ==
    /\ index = Len(attempts)
    /\ \A k \in 1..Len(attempts) :
          /\ attempts[k].new.idx = k - 1
          /\ attempts[k].file = ImagesOf(file_list)[k]
    /\ rn_pc = "done" => Len(attempts) = Len(ImagesOf(file_list))

IndexAdvancesWitness ==
    /\ rn_pc = "done"
    /\ \E k \in 1..Len(attempts) :
          /\ ~attempts[k].ok
          /\ \E m \in (k + 1)..Len(attempts) : attempts[m].ok /\ attempts[m].new.idx = m - 1

(***************************************************************************)
(* C6: with delete_non_img false and no rename reporting a failure, the    *)
(* folder afterwards holds exactly its n images, the i-th in sorted order  *)
(* named suffix.<i>.<its extension> with its content, and every non-image  *)
(* entry untouched.                                                        *)
(***************************************************************************)
RenameKeepsEveryImage ==
    (rn_pc = "done" /\ folder_exists /\ ~delete_non_img /\ rn_result = "returned") =>
        LET sorted == natsorted(DOMAIN folder0)
            images == ImagesOf(sorted)
            others == {n \in DOMAIN folder0 : ~is_image(n.ext)}
            target(i) == new_file_name(Suffix, i - 1, images[i].ext)
        IN  /\ DOMAIN folder = others \cup {target(i) : i \in 1..Len(images)}
            /\ \A i \in 1..Len(images) : folder[target(i)] = folder0[images[i]]
            /\ \A n \in others : folder[n] = folder0[n]

\* the normalized destination of the call, from its arguments
Destination ==
    norm_path(IF \A i \in 1..Len(cp_dst0) : cp_dst0[i] \notin {"/", "\\"}
              THEN path_join(dirname(cp_src0), cp_dst0)
              ELSE cp_dst0)

(***************************************************************************)
(* C7: in directory mode, exit code 1 returns the normalized destination   *)
(* without error; exit code 0 does too and is only logged; every other     *)
(* exit code raises an I/O error, with the table's description when the    *)
(* code is in the table.                                                   *)
(***************************************************************************)
RobocopyExitCodeHandling ==
    (cp_pc = "done" /\ cp_code # -1) =>
        /\ cp_code = 1 => cp_result = Returned(Destination) /\ cp_log = <<>>
        /\ cp_code = 0 => cp_result = Returned(Destination) /\ Len(cp_log) = 1
        /\ cp_code \notin {0, 1} =>
              /\ cp_result.kind = "IOError"
              /\ cp_result.code = cp_code
              /\ cp_log = <<>>
              /\ cp_code \in DOMAIN ROBOCOPY_ERROR_BOOK =>
                    cp_result.explain = ROBOCOPY_ERROR_BOOK[cp_code]

RobocopyExitCodeWitness ==
    /\ cp_pc = "done"
    /\ cp_code = 4
    /\ cp_result.kind = "IOError"
    /\ cp_result.explain = ROBOCOPY_ERROR_BOOK[4]

(***************************************************************************)
(* C8: with force false and an existing dst other than src, copy_path      *)
(* raises an I/O error and leaves the file system as it was: nothing is    *)
(* removed, no directory is created and no copy is started.                *)
(***************************************************************************)
ExistingDestinationIsRefused ==
    (/\ cp_pc = "done"
     /\ ~cp_force
     /\ Destination \in DOMAIN fs0
     /\ Destination # norm_path(cp_src0)) =>
        /\ cp_result.kind = "IOError"
        /\ cp_result.value = Destination
        /\ fs = fs0
        /\ fs_ops = <<>>
        /\ cp_code = -1

ExistingDestinationWitness ==
    /\ cp_pc = "done"
    /\ ~cp_force
    /\ cp_dst0 = <<"t">>
    /\ Destination \in DOMAIN fs0
    /\ fs0[Destination] = "dir"
    /\ cp_result.kind = "IOError"

====
